---- MODULE Spec2Model ----
(***************************************************************************)
(* A model of the `query` crate: UrlQuery::new (src/src/url_query.rs)      *)
(* parses a URL query string against an allow-list of field names, and     *)
(* QueryBuilder (src/src/sql.rs) renders the parsed model into SQL text    *)
(* and a list of bind arguments.                                           *)
(*                                                                         *)
(* A Rust string is a sequence of one-character strings, so that split,    *)
(* split_once, push_str, join, to_string and to_case are computed          *)
(* character by character as the code computes them.  Option<T> is a       *)
(* sequence of length 0 (None) or 1 (Some).  Result<T, E> is a record      *)
(* [ok |-> TRUE, val |-> t] or [ok |-> FALSE, err |-> e].                   *)
(***************************************************************************)
EXTENDS Integers, Sequences, FiniteSets, TLC

VARIABLES pc, toks, str, allowed_fields, result, qb, base, appended, out,
          fin, fres, ret, writes, direct

\* ret is the last call of a check_* method on the parsed model and what it
\* returned; writes counts the writes made through the references the *_mut
\* accessors hand out; direct lists the append_where / append_group /
\* append_sort calls made on the builder by its owner, before build.
vars == <<pc, toks, str, allowed_fields, result, qb, base, appended, out,
          fin, fres, ret, writes, direct>>

\* ------------------------------------------------------------------ bounds
\* The largest number of '&'-separated tokens of an enumerated query string.
MaxTokens == 2
\* The largest number of append() calls on one builder.
MaxAppends == 2
\* The longest string handed directly to Filter::new.
MaxFilterLen == 6
\* The largest number of append_where / append_group / append_sort calls
\* the owner of a builder makes on it before build.
MaxDirect == 1
\* The largest number of writes made to one parsed model through the
\* references its *_mut accessors return.
MaxWrites == 1

\* ----------------------------------------------------------------- strings
None == << >>
Some(x) == <<x>>

kAmp == "&"
kEq == "="
kDash == "-"

sFilter == <<"f","i","l","t","e","r","[","]">>
sSort == <<"s","o","r","t">>
sGroup == <<"g","r","o","u","p">>
sLimit == <<"l","i","m","i","t">>
sOffset == <<"o","f","f","s","e","t">>

\* The field names of the enumerated inputs: "a" and "uI" (as in userId).
fA == <<"a">>
fUI == <<"u","I">>
fLimit == <<"l","i","m","i","t">>
Fields == {fA, fUI, fLimit}

RECURSIVE Join(_, _)
\* [T]::join(sep) of the standard library.
Join(ss, sep) ==
  IF ss = << >> THEN << >>
  ELSE IF Len(ss) = 1 THEN ss[1]
  ELSE ss[1] \o sep \o Join(Tail(ss), sep)

RECURSIVE Find(_, _, _)
\* The index of the first occurrence of the character c in s at or after
\* position i, or 0 when there is none (str::find).
Find(s, c, i) ==
  IF i > Len(s) THEN 0
  ELSE IF s[i] = c THEN i
  ELSE Find(s, c, i + 1)

\* A split at the last c of s, as str::rsplit_once does.
SplitOnce_last(s, c) ==
  LET at == {i \in 1..Len(s) : s[i] = c} IN
  IF at = {} THEN None
  ELSE LET i == CHOOSE j \in at : \A k \in at : k <= j
       IN Some(<<SubSeq(s, 1, i - 1), SubSeq(s, i + 1, Len(s))>>)

\* str::split_once(c): None, or Some((before, after)) of the first c.
SplitOnce(s, c) ==
  LET i == Find(s, c, 1) IN
  IF i = 0 THEN None
  ELSE Some(<<SubSeq(s, 1, i - 1), SubSeq(s, i + 1, Len(s))>>)

RECURSIVE Split(_, _)
\* str::split(c).collect(): always at least one piece, the empty string
\* giving one empty piece.
Split(s, c) ==
  LET i == Find(s, c, 1) IN
  IF i = 0 THEN <<s>>
  ELSE <<SubSeq(s, 1, i - 1)>> \o Split(SubSeq(s, i + 1, Len(s)), c)

Digits == <<"0","1","2","3","4","5","6","7","8","9">>

\* usize is the 64-bit machine word.  A value below 2^63 is written as
\* itself and a value v from 2^63 on as v - 2^64, so that usize::MAX is -1
\* and integer addition is addition modulo 2^64; only values near 0 and
\* near 2^64 are enumerated.
UsizeMax == -1

\* A + in usize goes past usize::MAX: both operands are from 2^63 on, or
\* one is and the sum comes round to a value near 0.
AddOverflows(a, b) ==
  \/ a < 0 /\ b < 0
  \/ a < 0 /\ b >= 0 /\ a + b >= 0
  \/ a >= 0 /\ b < 0 /\ a + b >= 0

\* 2^64 is 18446744073709551616: its digits before the last seven, and
\* the number its last seven digits make.
TwoTo64High == <<"1","8","4","4","6","7","4","4","0","7","3","7","0">>
TwoTo64Low == 9551616

RECURSIVE PadDigits(_, _)
\* The last `width` decimal digits of n, zeros included.
PadDigits(n, width) ==
  IF width = 0 THEN << >>
  ELSE PadDigits(n \div 10, width - 1) \o <<Digits[(n % 10) + 1]>>

RECURSIVE NatToStr(_)
\* usize::to_string: the decimal digits, most significant first.  A value
\* written n < 0 is 2^64 + n; its digits are computed for n >= -9551616.
NatToStr(n) ==
  IF n < 0 THEN TwoTo64High \o PadDigits(TwoTo64Low + n, 7)
  ELSE IF n < 10 THEN <<Digits[n + 1]>>
  ELSE NatToStr(n \div 10) \o <<Digits[(n % 10) + 1]>>

Uppers ==
  <<"A","B","C","D","E","F","G","H","I","J","K","L","M",
    "N","O","P","Q","R","S","T","U","V","W","X","Y","Z">>
Lowers ==
  <<"a","b","c","d","e","f","g","h","i","j","k","l","m",
    "n","o","p","q","r","s","t","u","v","w","x","y","z">>
\* char::to_lowercase on the upper-case letters.
LowerOf ==
  [c \in {Uppers[i] : i \in 1..26} |->
     Lowers[CHOOSE i \in 1..26 : Uppers[i] = c]]
IsUpper(c) == c \in DOMAIN LowerOf
ToLower(c) == IF IsUpper(c) THEN LowerOf[c] ELSE c
IsDelim(c) == c \in {"-", "_", " "}

RECURSIVE SnakeWords(_, _, _, _)
\* The words to_case(Case::Snake) of the convert_case crate cuts s into,
\* from position i on, lower-cased: a word ends at a delimiter and before an
\* upper-case letter that follows a lower-case one; empty words are dropped.
\* (The crate's boundaries at digits and inside acronyms are not modelled:
\* no enumerated field name has a digit or two upper-case letters in a row.)
SnakeWords(s, i, word, words) ==
  LET flushed == IF word = << >> THEN words ELSE Append(words, word) IN
  IF i > Len(s) THEN flushed
  ELSE IF IsDelim(s[i]) THEN SnakeWords(s, i + 1, << >>, flushed)
  ELSE IF word # << >> /\ IsUpper(s[i]) /\ ~IsUpper(s[i - 1])
    THEN SnakeWords(s, i + 1, <<ToLower(s[i])>>, flushed)
  ELSE SnakeWords(s, i + 1, Append(word, ToLower(s[i])), words)

\* to_case(Case::Snake): the words joined by '_'.
ToSnake(s) == Join(SnakeWords(s, 1, << >>, << >>), <<"_">>)

\* --------------------------------------------------------------- filter.rs
Ok(v) == [ok |-> TRUE, val |-> v]
Err(e) == [ok |-> FALSE, err |-> e]

\* impl FromStr for Condition
Condition_from_str(s) ==
  CASE s = <<"e","q">> -> Ok("EQ")
    [] s = <<"n","e">> -> Ok("NE")
    [] s = <<"g","t">> -> Ok("GT")
    [] s = <<"g","e">> -> Ok("GE")
    [] s = <<"l","t">> -> Ok("LT")
    [] s = <<"l","e">> -> Ok("LE")
    [] OTHER -> Err("InvalidCondition")

\* Condition::as_str
Condition_as_str(c) ==
  CASE c = "EQ" -> <<"=">>
    [] c = "NE" -> <<"!","=">>
    [] c = "GT" -> <<">">>
    [] c = "GE" -> <<">","=">>
    [] c = "LT" -> <<"<">>
    [] c = "LE" -> <<"<","=">>

\* Filter::new cutting at every '-' and asking for exactly three pieces.
Filter_new_every_dash(s) ==
  LET parts == Split(s, kDash) IN
  IF Len(parts) # 3 THEN Err("InvalidFilter")
  ELSE LET condition == Condition_from_str(parts[2]) IN
       IF ~condition.ok THEN Err(condition.err)
       ELSE Ok([field |-> parts[1], condition |-> condition.val,
                value |-> parts[3]])

\* Filter::new
Filter_new(s) ==
  LET first == SplitOnce(s, kDash) IN
  IF first = None THEN Err("InvalidFilter")
  ELSE LET field == first[1][1]
           rest == first[1][2]
           second == SplitOnce(rest, kDash)
       IN IF second = None THEN Err("InvalidFilter")
          ELSE LET condition == Condition_from_str(second[1][1])
                   value == second[1][2]
               IN IF ~condition.ok THEN Err(condition.err)
                  ELSE Ok([field |-> field, condition |-> condition.val,
                           value |-> value])

\* Filter::from_key_value with key and value exchanged.
Filter_from_key_value_swapped(key, value, condition) ==
  [field |-> value, condition |-> condition, value |-> key]

\* Filter::from_key_value
Filter_from_key_value(key, value, condition) ==
  [field |-> key, condition |-> condition, value |-> value]

\* ----------------------------------------------------------------- sort.rs
\* impl FromStr for SortBy: the direction token of a sort value.
SortBy_from_str(s) ==
  CASE s = <<"a","s","c">> -> Ok("ASC")
    [] s = <<"d","e","s","c">> -> Ok("DESC")
    [] OTHER -> Err("InvalidSortBy")

\* SortBy::as_str: the rendered direction.
SortBy_as_str(d) ==
  CASE d = "ASC" -> <<"A","S","C">>
    [] d = "DESC" -> <<"D","E","S","C">>

\* Sort::new: `field-direction`, cut at the first '-'.
Sort_new(s) ==
  LET first == SplitOnce(s, kDash) IN
  IF first = None THEN Err("InvalidSort")
  ELSE LET sort_by == SortBy_from_str(first[1][2]) IN
       IF ~sort_by.ok THEN Err(sort_by.err)
       ELSE Ok([field |-> first[1][1], sort_by |-> sort_by.val])

\* Sort::to_sql_map_table(table, case): `[table.]field_transformed ASC|DESC`.
Sort_to_sql_map_table(sort, table) ==
  (IF table # None THEN table[1] \o <<".">> ELSE << >>)
    \o ToSnake(sort.field) \o <<" ">> \o SortBy_as_str(sort.sort_by)

\* ------------------------------------------------------------ url_query.rs
\* check_allowed_fields reporting a disallowed field as a malformed filter.
check_allowed_fields_as_filter(field, allowed) ==
  IF field \notin allowed THEN Err("InvalidFilter") ELSE Ok(TRUE)

\* check_allowed_fields with the test of line 10 inverted.
check_allowed_fields_inverted(field, allowed) ==
  IF field \in allowed THEN Err("InvalidField") ELSE Ok(TRUE)

\* check_allowed_fields
check_allowed_fields(field, allowed) ==
  IF field \notin allowed THEN Err("InvalidField") ELSE Ok(TRUE)

\* The locals of UrlQuery::new before its loop (lines 33-39).
EmptyQuery ==
  [params |-> {}, filters |-> << >>, group |-> None, sort |-> None,
   limit_offset |-> <<None, None>>]

\* The loop body with the `continue` of line 68 missing: a limit token is
\* stored and then handled as a plain key too.
LoopBody_limit_falls_through(q, allowed, m) ==
  LET kv == SplitOnce(q, kEq) IN
  IF kv = None THEN Ok(m)
  ELSE
    LET k == kv[1][1]
        v == kv[1][2]
    IN
    IF k = sFilter THEN
      LET filter == Filter_new(v) IN
      IF ~filter.ok THEN Err(filter.err)
      ELSE LET chk == check_allowed_fields(filter.val.field, allowed) IN
           IF ~chk.ok THEN Err(chk.err)
           ELSE Ok([m EXCEPT !.filters = Append(@, filter.val)])
    ELSE IF k = sGroup THEN
      LET chk == check_allowed_fields(v, allowed) IN
      IF ~chk.ok THEN Err(chk.err)
      ELSE Ok([m EXCEPT !.group = Some(v)])
    ELSE IF k = sSort THEN
      LET sort == Sort_new(v) IN
      IF ~sort.ok THEN Err(sort.err)
      ELSE LET chk == check_allowed_fields(sort.val.field, allowed) IN
           IF ~chk.ok THEN Err(chk.err)
           ELSE Ok([m EXCEPT !.sort = Some(sort.val)])
    ELSE IF k = sLimit THEN
      LET chk == check_allowed_fields(k, allowed) IN
      IF ~chk.ok THEN Err(chk.err)
      ELSE Ok([m EXCEPT
                 !.limit_offset = <<Some(v), @[2]>>,
                 !.filters = Append(@, Filter_from_key_value(k, v, "EQ")),
                 !.params = @ \cup {k}])
    ELSE IF k = sOffset THEN
      Ok([m EXCEPT !.limit_offset = <<@[1], Some(v)>>])
    ELSE
      LET chk == check_allowed_fields(k, allowed) IN
      IF ~chk.ok THEN Err(chk.err)
      ELSE Ok([m EXCEPT
                 !.filters = Append(@, Filter_from_key_value(k, v, "EQ")),
                 !.params = @ \cup {k}])

\* One iteration of the loop of UrlQuery::new on the token q, with the locals
\* m: Ok(the locals after it), or the error the `?` operator returns.
LoopBody(q, allowed, m) ==
  LET kv == SplitOnce(q, kEq) IN
  IF kv = None THEN Ok(m)
  ELSE
    LET k == kv[1][1]
        v == kv[1][2]
    IN
    IF k = sFilter THEN
      LET filter == Filter_new(v) IN
      IF ~filter.ok THEN Err(filter.err)
      ELSE LET chk == check_allowed_fields(filter.val.field, allowed) IN
           IF ~chk.ok THEN Err(chk.err)
           ELSE Ok([m EXCEPT !.filters = Append(@, filter.val)])
    ELSE IF k = sGroup THEN
      LET chk == check_allowed_fields(v, allowed) IN
      IF ~chk.ok THEN Err(chk.err)
      ELSE Ok([m EXCEPT !.group = Some(v)])
    ELSE IF k = sSort THEN
      LET sort == Sort_new(v) IN
      IF ~sort.ok THEN Err(sort.err)
      ELSE LET chk == check_allowed_fields(sort.val.field, allowed) IN
           IF ~chk.ok THEN Err(chk.err)
           ELSE Ok([m EXCEPT !.sort = Some(sort.val)])
    ELSE IF k = sLimit THEN
      Ok([m EXCEPT !.limit_offset = <<Some(v), @[2]>>])
    ELSE IF k = sOffset THEN
      Ok([m EXCEPT !.limit_offset = <<@[1], Some(v)>>])
    ELSE
      LET chk == check_allowed_fields(k, allowed) IN
      IF ~chk.ok THEN Err(chk.err)
      ELSE Ok([m EXCEPT
                 !.filters = Append(@, Filter_from_key_value(k, v, "EQ")),
                 !.params = @ \cup {k}])

RECURSIVE Loop_last_error(_, _, _, _)
\* The loop going on past a failing token and returning the last error.
Loop_last_error(queries, i, allowed, m) ==
  IF i > Len(queries) THEN Ok(m)
  ELSE LET r == LoopBody(queries[i], allowed, m) IN
       IF ~r.ok
         THEN LET later == Loop_last_error(queries, i + 1, allowed, m) IN
              IF later.ok THEN r ELSE later
         ELSE Loop_last_error(queries, i + 1, allowed, r.val)

RECURSIVE Loop(_, _, _, _)
\* The loop of UrlQuery::new over queries from index i on: the first error
\* returns at once, the end of the loop returns the model.
Loop(queries, i, allowed, m) ==
  IF i > Len(queries) THEN Ok(m)
  ELSE LET r == LoopBody(queries[i], allowed, m) IN
       IF ~r.ok THEN r
       ELSE Loop(queries, i + 1, allowed, r.val)

\* UrlQuery::new
UrlQuery_new(s, allowed) == Loop(Split(s, kAmp), 1, allowed, EmptyQuery)

\* UrlQuery::check_limit
check_limit(q) ==
  IF q.limit_offset[1] # None THEN Ok(q.limit_offset[1][1])
  ELSE Err("limit is required")

\* UrlQuery::check_offset
check_offset(q) ==
  IF q.limit_offset[2] # None THEN Ok(q.limit_offset[2][1])
  ELSE Err("offset is required")

\* The text push_str adds after the name (url_query.rs line 100).
sIsRequired == <<" ","i","s"," ","r","e","q","u","i","r","e","d">>

RECURSIVE check_required_last_missing(_, _)
\* check_required going on after a missing name, to report the last one.
check_required_last_missing(self, required) ==
  IF required = << >> THEN Ok(<< >>)
  ELSE LET r == Head(required)
           later == check_required_last_missing(self, Tail(required))
       IN IF ~later.ok THEN later
          ELSE IF r \notin self.params THEN Err(r \o sIsRequired)
          ELSE later

RECURSIVE check_required(_, _)
\* UrlQuery::check_required: the names are taken in the order the caller's
\* collection yields them, and the first one missing from params returns.
\* Ok(()) is Ok of the empty tuple.
check_required(self, required) ==
  IF required = << >> THEN Ok(<< >>)
  ELSE LET r == Head(required) IN
       IF r \notin self.params THEN Err(r \o sIsRequired)
       ELSE check_required(self, Tail(required))

\* UrlQuery::check_limit_and_offset
check_limit_and_offset(q) ==
  LET limit == check_limit(q) IN
  IF ~limit.ok THEN limit
  ELSE LET offset == check_offset(q) IN
       IF ~offset.ok THEN offset
       ELSE Ok(<<limit.val, offset.val>>)

\* ------------------------------------------------- filter.rs, rendering
\* Filter::to_sql: the field (case-converted when a case is given), the
\* comparison operator and the placeholder, pushed onto `filter`.  The
\* builder's database is Postgres, the one variant of Database (sql.rs,
\* lines 7-9).
Filter_to_sql(self, filter, idx, case, database) ==
  filter
    \o (IF case # None THEN ToSnake(self.field) ELSE self.field)
    \o <<" ">> \o Condition_as_str(self.condition) \o <<" ">>
    \o (IF database = "Postgres" THEN <<"$">> \o NatToStr(idx) ELSE <<"?">>)

\* Filter::to_sql_map_table
Filter_to_sql_map_table(self, idx, table, case, database) ==
  Filter_to_sql(self, IF table # None THEN table[1] \o <<".">> ELSE << >>,
                idx, case, database)

\* ------------------------------------------------------------------ sql.rs
\* The lookup made with the case-converted name instead of the name held.
MapGet_by_snake_name(m, k) ==
  IF ToSnake(k) \in DOMAIN m THEN Some(m[ToSnake(k)]) ELSE None

\* HashMap::get
MapGet(m, k) == IF k \in DOMAIN m THEN Some(m[k]) ELSE None

\* HashMap::default()
EmptyMap == [k \in {} |-> << >>]

\* gen_sql_select
gen_sql_select(table, columns) ==
  <<"S","E","L","E","C","T"," ">> \o Join(columns, <<",", " ">>)
    \o <<" ","F","R","O","M"," ">> \o table

\* QueryBuilder::new
QueryBuilder_new(table, columns, url_query) ==
  [url_query |-> url_query, database |-> "Postgres", map_columns |-> EmptyMap,
   shift_bind |-> 0, sql |-> gen_sql_select(table, columns)]

\* QueryBuilder::from_str
QueryBuilder_from_str(sql, url_query) ==
  [url_query |-> url_query, database |-> "Postgres", map_columns |-> EmptyMap,
   shift_bind |-> 0, sql |-> sql]

\* QueryBuilder::append
append(self, sql) == [self EXCEPT !.sql = @ \o <<" ">> \o sql]

\* QueryBuilder::map_columns
map_columns(self, m) == [self EXCEPT !.map_columns = m]

\* QueryBuilder::shift_bind
shift_bind(self, x) == [self EXCEPT !.shift_bind = x]

\* The bind index without its "+ 1".
BindIndex_from_zero(args, self) == Len(args) + self.shift_bind

\* The bind index append_where hands to to_sql_map_table (sql.rs line 109).
BindIndex(args, self) == Len(args) + self.shift_bind + 1

\* One of the two additions of sql.rs line 109 goes past usize::MAX, with
\* n the length of args.
BindIndexOverflows(n, self) ==
  \/ AddOverflows(n, self.shift_bind)
  \/ AddOverflows(n + self.shift_bind, 1)

\* The loop of append_where meets an addition that goes past usize::MAX.
WhereOverflows(self) ==
  \E i \in 1..Len(self.url_query.filters) : BindIndexOverflows(i - 1, self)

RECURSIVE WhereLoop(_, _, _, _)
\* The loop of append_where over url_query.filters from index i on, with the
\* locals filterv and args.
WhereLoop(self, i, filterv, args) ==
  IF i > Len(self.url_query.filters) THEN [filterv |-> filterv, args |-> args]
  ELSE LET filter == self.url_query.filters[i]
           table == MapGet(self.map_columns, filter.field)
       IN WhereLoop(self, i + 1,
            Append(filterv,
                   Filter_to_sql_map_table(filter, BindIndex(args, self), table,
                                           Some("Snake"), self.database)),
            Append(args, <<filter.field, filter.value>>))

\* QueryBuilder::append_where: the builder after it and the args it returns.
append_where(self) ==
  LET l == WhereLoop(self, 1, << >>, << >>)
      filter == Join(l.filterv, <<" ","A","N","D"," ">>)
  IN [self |-> IF Len(l.filterv) > 0
                 THEN [self EXCEPT !.sql = @ \o <<" ","W","H","E","R","E"," ">>
                                             \o filter]
                 ELSE self,
      args |-> l.args]

\* QueryBuilder::append_group
append_group(self) ==
  IF self.url_query.group = None THEN self
  ELSE LET group == self.url_query.group[1]
           table == MapGet(self.map_columns, group)
       IN [self EXCEPT !.sql =
             @ \o <<" ","G","R","O","U","P"," ","B","Y"," ">>
               \o (IF table # None THEN table[1] \o <<".">> ELSE << >>)
               \o ToSnake(group)]

\* QueryBuilder::append_sort
append_sort(self) ==
  IF self.url_query.sort = None THEN self
  ELSE LET sort == self.url_query.sort[1]
           table == MapGet(self.map_columns, sort.field)
       IN [self EXCEPT !.sql =
             @ \o <<" ","O","R","D","E","R"," ","B","Y"," ">>
               \o Sort_to_sql_map_table(sort, table)]

\* append_limit
append_limit(sql, limit) == sql \o <<" ","L","I","M","I","T"," ">> \o limit

\* append_offset
append_offset(sql, offset) ==
  sql \o <<" ","O","F","F","S","E","T"," ">> \o offset

\* build with append_sort called before append_group.
build_sort_before_group(self) ==
  LET w == append_where(self)
      g == append_sort(w.self)
      s == append_group(g)
      limit == check_limit(s.url_query)
      offset == check_offset(s.url_query)
      sql == IF limit.ok
               THEN IF offset.ok
                      THEN append_offset(append_limit(s.sql, limit.val),
                                         offset.val)
                      ELSE append_limit(s.sql, limit.val)
               ELSE s.sql
  IN <<sql, w.args>>

\* build with the offset test beside the limit test, not inside it.
build_offset_alone(self) ==
  LET w == append_where(self)
      g == append_group(w.self)
      s == append_sort(g)
      limit == check_limit(s.url_query)
      offset == check_offset(s.url_query)
      l == IF limit.ok THEN append_limit(s.sql, limit.val) ELSE s.sql
      sql == IF offset.ok THEN append_offset(l, offset.val) ELSE l
  IN <<sql, w.args>>

\* QueryBuilder::build: (sql, args).
build(self) ==
  LET w == append_where(self)
      g == append_group(w.self)
      s == append_sort(g)
      limit == check_limit(s.url_query)
      offset == check_offset(s.url_query)
      sql == IF limit.ok
               THEN IF offset.ok
                      THEN append_offset(append_limit(s.sql, limit.val),
                                         offset.val)
                      ELSE append_limit(s.sql, limit.val)
               ELSE s.sql
  IN <<sql, w.args>>

\* ------------------------------------------------------------------ inputs
\* The '&'-separated tokens an enumerated query string is made of.
TokenPool ==
  { fA \o <<"=","1">>,
    fUI \o <<"=","2">>,
    fA \o <<"=","1","=","2">>,
    fA,
    sFilter \o <<"=">> \o fA \o <<"-","g","e","-","2">>,
    sFilter \o <<"=">> \o fUI \o <<"-","e","q","-","1","-","2">>,
    sFilter \o <<"=">> \o fA \o <<"-","e","q">>,
    sFilter \o <<"=">> \o fA \o <<"-","x","x","-","1">>,
    sSort \o <<"=">> \o fUI \o <<"-","d","e","s","c">>,
    sSort \o <<"=">> \o fA \o <<"-","u","p">>,
    sSort \o <<"=">> \o fA,
    sGroup \o <<"=">> \o fUI,
    sLimit \o <<"=","1","0">>,
    sOffset \o <<"=","x">> }

\* The query of test_query_builder_from_str (sql.rs line 253), with the
\* model's field names: filters, sort, limit and offset all present, and a
\* group as in test_parse_query (url_query.rs line 159).
TestTokens ==
  << fUI \o <<"=","2">>,
     sFilter \o <<"=">> \o fA \o <<"-","g","e","-","2">>,
     sGroup \o <<"=">> \o fUI,
     sSort \o <<"=">> \o fUI \o <<"-","d","e","s","c">>,
     sLimit \o <<"=","1","0">>,
     sOffset \o <<"=","x">> >>

TokenSeqs ==
  UNION {[1..n -> TokenPool] : n \in 0..MaxTokens} \cup {TestTokens}

tT == <<"t">>
tO == <<"o">>

\* The column maps handed to map_columns: keys as the model holds the field
\* names, and one keyed by a case-converted name.
ColumnMaps ==
  { EmptyMap,
    (fUI :> tT),
    (fA :> tT) @@ (fUI :> tO),
    (ToSnake(fUI) :> tT) }

ShiftValues == {0, 1, 9}

\* shift_bind arguments at the top of usize.
WideShiftValues == {UsizeMax, UsizeMax - 1}

Fragments == { <<"J">>, <<"K">> }

BaseSqls == { << >>, <<"X"," ","$","1">> }

\* The name lists handed to check_required: those of test_required
\* (url_query.rs lines 237 and 240), names in both orders, and each reserved
\* key.
RequiredLists ==
  { << >>, <<fA>>, <<fUI>>, <<fA, fUI>>, <<fUI, fA>>,
    <<fUI, sLimit, sOffset>>, <<sOffset, sLimit>>,
    <<sLimit>>, <<sOffset>>, <<sSort>>, <<sGroup>>, <<sFilter>> }

\* A field name of the caller's own, in no allow-list.
fZ == <<"z">>

NoBuilder == [none |-> TRUE]
NoResult == [none |-> TRUE]

\* ----------------------------------------------------------------- actions
Init ==
  /\ pc = "start"
  /\ toks = << >>
  /\ str = << >>
  /\ allowed_fields = {}
  /\ result = NoResult
  /\ qb = NoBuilder
  /\ base = << >>
  /\ appended = << >>
  /\ out = <<>>
  /\ fin = << >>
  /\ fres = NoResult
  /\ ret = NoResult
  /\ writes = 0
  /\ direct = << >>

\* UrlQuery::new(str, allowed_fields) on an enumerated query string.
UrlQueryNew ==
  /\ pc = "start"
  /\ \E ts \in TokenSeqs, allowed \in SUBSET Fields :
       /\ toks' = ts
       /\ str' = Join(ts, <<kAmp>>)
       /\ allowed_fields' = allowed
       /\ result' = UrlQuery_new(str', allowed)
       /\ pc' = IF result'.ok THEN "parsed" ELSE "failed"
  /\ UNCHANGED <<qb, base, appended, out, fin, fres, ret, writes, direct>>

\* Filter::new(str) called directly, as test_new_uuid does.
FilterNew ==
  /\ pc = "start"
  /\ \E n \in 0..MaxFilterLen :
       \E s \in [1..n -> {"a", "e", "q", "-"}] :
         /\ fin' = s
         /\ fres' = Filter_new(s)
  /\ pc' = "filter"
  /\ UNCHANGED <<toks, str, allowed_fields, result, qb, base, appended, out,
                 ret, writes, direct>>

\* The parse is over and its model moved into a builder: the query string,
\* the allow-list and the result are no longer held.
Moved ==
  /\ toks' = << >>
  /\ str' = << >>
  /\ allowed_fields' = {}
  /\ result' = NoResult
  /\ ret' = NoResult
  /\ writes' = 0

\* QueryBuilder::new(table, columns, url_query, Database::Postgres)
QueryBuilderNew ==
  /\ pc = "parsed"
  /\ \E columns \in {<<<<"i">>, <<"s">>>>} :
       /\ qb' = QueryBuilder_new(tT, columns, result.val)
       /\ base' = qb'.sql
  /\ pc' = "builder"
  /\ Moved
  /\ UNCHANGED <<appended, out, fin, fres, direct>>

\* QueryBuilder::from_str(sql, url_query, Database::Postgres)
QueryBuilderFromStr ==
  /\ pc = "parsed"
  /\ \E sql \in BaseSqls :
       /\ qb' = QueryBuilder_from_str(sql, result.val)
       /\ base' = sql
  /\ pc' = "builder"
  /\ Moved
  /\ UNCHANGED <<appended, out, fin, fres, direct>>

\* builder.append(sql)
BuilderAppend ==
  /\ pc = "builder"
  /\ Len(appended) < MaxAppends
  /\ \E sql \in Fragments :
       /\ qb' = append(qb, sql)
       /\ appended' = Append(appended, sql)
  /\ UNCHANGED <<pc, toks, str, allowed_fields, result, base, out, fin, fres,
                 ret, writes, direct>>

\* builder.map_columns(map)
BuilderMapColumns ==
  /\ pc = "builder"
  /\ \E m \in ColumnMaps : qb' = map_columns(qb, m)
  /\ UNCHANGED <<pc, toks, str, allowed_fields, result, base, appended, out,
                 fin, fres, ret, writes, direct>>

\* builder.shift_bind(x)
BuilderShiftBind ==
  /\ pc = "builder"
  /\ \E x \in ShiftValues : qb' = shift_bind(qb, x)
  /\ UNCHANGED <<pc, toks, str, allowed_fields, result, base, appended, out,
                 fin, fres, ret, writes, direct>>

\* builder.build(): consumes the builder; qb keeps the builder it was
\* called on.
BuilderBuild ==
  /\ pc = "builder"
  /\ out' = build(qb)
  /\ pc' = "built"
  /\ UNCHANGED <<toks, str, allowed_fields, result, qb, base, appended, fin,
                 fres, ret, writes, direct>>

Next ==
  \/ UrlQueryNew
  \/ FilterNew
  \/ QueryBuilderNew
  \/ QueryBuilderFromStr
  \/ BuilderAppend
  \/ BuilderMapColumns
  \/ BuilderShiftBind
  \/ BuilderBuild

Spec == Init /\ [][Next]_vars

\* ------------------------------------------ the parsed model's own methods
\* url_query.check_required(required)
CheckRequired ==
  /\ pc = "parsed"
  /\ \E required \in RequiredLists :
       ret' = [op |-> "check_required", required |-> required,
               val |-> check_required(result.val, required)]
  /\ UNCHANGED <<pc, toks, str, allowed_fields, result, qb, base, appended,
                 out, fin, fres, writes, direct>>

\* check_limit taking the limit out of the model, as Option::take would.
CheckLimit_takes ==
  /\ pc = "parsed"
  /\ ret' = [op |-> "check_limit", required |-> << >>,
             val |-> check_limit(result.val)]
  /\ result' = [result EXCEPT !.val.limit_offset = <<None, @[2]>>]
  /\ UNCHANGED <<pc, toks, str, allowed_fields, qb, base, appended,
                 out, fin, fres, writes, direct>>

\* url_query.check_limit()
CheckLimit ==
  /\ pc = "parsed"
  /\ ret' = [op |-> "check_limit", required |-> << >>,
             val |-> check_limit(result.val)]
  /\ UNCHANGED <<pc, toks, str, allowed_fields, result, qb, base, appended,
                 out, fin, fres, writes, direct>>

\* url_query.check_offset()
CheckOffset ==
  /\ pc = "parsed"
  /\ ret' = [op |-> "check_offset", required |-> << >>,
             val |-> check_offset(result.val)]
  /\ UNCHANGED <<pc, toks, str, allowed_fields, result, qb, base, appended,
                 out, fin, fres, writes, direct>>

\* url_query.check_limit_and_offset()
CheckLimitAndOffset ==
  /\ pc = "parsed"
  /\ ret' = [op |-> "check_limit_and_offset", required |-> << >>,
             val |-> check_limit_and_offset(result.val)]
  /\ UNCHANGED <<pc, toks, str, allowed_fields, result, qb, base, appended,
                 out, fin, fres, writes, direct>>

\* url_query.filters_mut() and a write through the &mut Vec<Filter> it
\* returns: a push of a filter the caller made, or clear().  The accessor
\* makes no check of what is written.
FiltersMut ==
  /\ pc = "parsed"
  /\ writes < MaxWrites
  /\ \E filters \in { Append(result.val.filters,
                              Filter_from_key_value(fZ, <<"1">>, "EQ")),
                       << >> } :
       result' = [result EXCEPT !.val.filters = filters]
  /\ writes' = writes + 1
  /\ UNCHANGED <<pc, toks, str, allowed_fields, qb, base, appended, out, fin,
                 fres, ret, direct>>

\* url_query.group_mut() and an assignment through the &mut Option<String>
\* it returns.
GroupMut ==
  /\ pc = "parsed"
  /\ writes < MaxWrites
  /\ \E group \in {Some(fZ), None} :
       result' = [result EXCEPT !.val.group = group]
  /\ writes' = writes + 1
  /\ UNCHANGED <<pc, toks, str, allowed_fields, qb, base, appended, out, fin,
                 fres, ret, direct>>

\* url_query.sort_mut() and an assignment of None through the
\* &mut Option<Sort> it returns.
SortMut ==
  /\ pc = "parsed"
  /\ writes < MaxWrites
  /\ result' = [result EXCEPT !.val.sort = None]
  /\ writes' = writes + 1
  /\ UNCHANGED <<pc, toks, str, allowed_fields, qb, base, appended, out, fin,
                 fres, ret, direct>>

\* url_query.limit_offset_mut() and an assignment of (None, None) through
\* the &mut (Option<String>, Option<String>) it returns.
LimitOffsetMut ==
  /\ pc = "parsed"
  /\ writes < MaxWrites
  /\ result' = [result EXCEPT !.val.limit_offset = <<None, None>>]
  /\ writes' = writes + 1
  /\ UNCHANGED <<pc, toks, str, allowed_fields, qb, base, appended, out, fin,
                 fres, ret, direct>>

\* The life of a parsed model in the hands of its owner, before a builder
\* takes it.
NextQuery ==
  \/ UrlQueryNew
  \/ CheckRequired
  \/ CheckLimit
  \/ CheckOffset
  \/ CheckLimitAndOffset
  \/ FiltersMut
  \/ GroupMut
  \/ SortMut
  \/ LimitOffsetMut

SpecQuery == Init /\ [][NextQuery]_vars

\* ---------------------------------------- the builder's other public calls
\* builder.shift_bind(x) with x at the top of usize.
BuilderShiftBindWide ==
  /\ pc = "builder"
  /\ \E x \in WideShiftValues : qb' = shift_bind(qb, x)
  /\ UNCHANGED <<pc, toks, str, allowed_fields, result, base, appended, out,
                 fin, fres, ret, writes, direct>>

\* builder.append_where() called by the builder's owner; the args it
\* returns are dropped.
BuilderAppendWhere ==
  /\ pc = "builder"
  /\ Len(direct) < MaxDirect
  /\ qb' = append_where(qb).self
  /\ direct' = Append(direct, "append_where")
  /\ UNCHANGED <<pc, toks, str, allowed_fields, result, base, appended, out,
                 fin, fres, ret, writes>>

\* builder.append_group() called by the builder's owner.
BuilderAppendGroup ==
  /\ pc = "builder"
  /\ Len(direct) < MaxDirect
  /\ qb' = append_group(qb)
  /\ direct' = Append(direct, "append_group")
  /\ UNCHANGED <<pc, toks, str, allowed_fields, result, base, appended, out,
                 fin, fres, ret, writes>>

\* builder.append_sort() called by the builder's owner.
BuilderAppendSort ==
  /\ pc = "builder"
  /\ Len(direct) < MaxDirect
  /\ qb' = append_sort(qb)
  /\ direct' = Append(direct, "append_sort")
  /\ UNCHANGED <<pc, toks, str, allowed_fields, result, base, appended, out,
                 fin, fres, ret, writes>>

\* append_where, called by build or by the owner, in a build of the crate
\* with overflow checks (the debug profile): the addition of sql.rs line 109
\* that goes past usize::MAX panics and the call does not return.  In a
\* build without them (the release profile) the sum wraps round, which is
\* what BindIndex computes, and BuilderBuild and BuilderAppendWhere go on.
AppendWhereOverflowPanics ==
  /\ pc = "builder"
  /\ WhereOverflows(qb)
  /\ pc' = "panicked"
  /\ UNCHANGED <<toks, str, allowed_fields, result, qb, base, appended, out,
                 fin, fres, ret, writes, direct>>

\* Every public operation of QueryBuilder, on every parsed model.
NextApi ==
  \/ UrlQueryNew
  \/ QueryBuilderNew
  \/ QueryBuilderFromStr
  \/ BuilderAppend
  \/ BuilderMapColumns
  \/ BuilderShiftBind
  \/ BuilderShiftBindWide
  \/ BuilderAppendWhere
  \/ BuilderAppendGroup
  \/ BuilderAppendSort
  \/ BuilderBuild
  \/ AppendWhereOverflowPanics

SpecApi == Init /\ [][NextApi]_vars

\* ======================================================================
\* The claims.  What a claim says of the input is stated here from the
\* query string's tokens (toks), with definitions of its own: the first
\* '=' of a token, the first two '-' of a filter value, the reserved keys.
\* ======================================================================
\* The positions of the character c in s.
Positions(s, c) == {i \in 1..Len(s) : s[i] = c}
\* The smallest member of a non-empty set of numbers.
Least(S) == CHOOSE i \in S : \A j \in S : i <= j
HasEq(t) == Positions(t, "=") # {}
KeyOf(t) == SubSeq(t, 1, Least(Positions(t, "=")) - 1)
ValOf(t) == SubSeq(t, Least(Positions(t, "=")) + 1, Len(t))

ReservedKeys ==
  { <<"f","i","l","t","e","r","[","]">>, <<"s","o","r","t">>,
    <<"g","r","o","u","p">>, <<"l","i","m","i","t">>,
    <<"o","f","f","s","e","t">> }
IsFilterTok(t) == HasEq(t) /\ KeyOf(t) = <<"f","i","l","t","e","r","[","]">>
IsSortTok(t) == HasEq(t) /\ KeyOf(t) = <<"s","o","r","t">>
IsGroupTok(t) == HasEq(t) /\ KeyOf(t) = <<"g","r","o","u","p">>
IsLimitTok(t) == HasEq(t) /\ KeyOf(t) = <<"l","i","m","i","t">>
IsOffsetTok(t) == HasEq(t) /\ KeyOf(t) = <<"o","f","f","s","e","t">>
IsPlainTok(t) == HasEq(t) /\ KeyOf(t) \notin ReservedKeys

\* The two-letter condition tokens and the condition each stands for.
CondTokens ==
  { <<<<"e","q">>, "EQ">>, <<<<"n","e">>, "NE">>, <<<<"g","t">>, "GT">>,
    <<<<"g","e">>, "GE">>, <<<<"l","t">>, "LT">>, <<<<"l","e">>, "LE">> }
IsCondToken(s) == \E p \in CondTokens : p[1] = s
CondOf(s) == (CHOOSE p \in CondTokens : p[1] = s)[2]

\* The cut of a filter value at its first two '-'.
Dash1(s) == Least(Positions(s, "-"))
Dash2(s) == Least(Positions(s, "-") \ {Dash1(s)})
CutField(s) == SubSeq(s, 1, Dash1(s) - 1)
CutCond(s) == SubSeq(s, Dash1(s) + 1, Dash2(s) - 1)
CutValue(s) == SubSeq(s, Dash2(s) + 1, Len(s))
ThreeParts(s) == Cardinality(Positions(s, "-")) >= 2

\* C1: every field name of a model UrlQuery::new returns (the members of
\* params, the field of every filter, the group, the sort field) is in the
\* allow-list it was called with.
C1_HeldFieldsAllowed ==
  pc = "parsed" =>
    /\ result.val.params \subseteq allowed_fields
    /\ \A i \in 1..Len(result.val.filters) :
         result.val.filters[i].field \in allowed_fields
    /\ result.val.group # None => result.val.group[1] \in allowed_fields
    /\ result.val.sort # None => result.val.sort[1].field \in allowed_fields

\* A parsed model with a plain parameter, a filter[] entry, a group and a
\* sort.
C1_Witness ==
  /\ pc = "parsed"
  /\ result.val.params # {}
  /\ Len(result.val.filters) >= 2
  /\ result.val.group # None
  /\ result.val.sort # None
  /\ allowed_fields # Fields

\* The filter a contributing token stands for.
FilterOfToken(t) ==
  IF IsFilterTok(t)
    THEN [field |-> CutField(ValOf(t)), condition |-> CondOf(CutCond(ValOf(t))),
          value |-> CutValue(ValOf(t))]
    ELSE [field |-> KeyOf(t), condition |-> "EQ", value |-> ValOf(t)]

\* The tokens that contribute a filter, in input order.
Contributing(ts) == SelectSeq(ts, LAMBDA t : IsFilterTok(t) \/ IsPlainTok(t))

\* C2: on success, filters is the left-to-right sequence of the filter[] and
\* plain tokens of the input, one entry each: (key, EQ, value) for a plain
\* token and the parsed triple for a filter[] token.
C2_FiltersMirrorTokens ==
  pc = "parsed" =>
    LET c == Contributing(toks) IN
    /\ Len(result.val.filters) = Len(c)
    /\ \A i \in 1..Len(c) : result.val.filters[i] = FilterOfToken(c[i])

\* A plain token after a filter[] token, and a repeated plain token.
C2_Witness ==
  /\ pc = "parsed"
  /\ Len(toks) = 2
  /\ \/ IsFilterTok(toks[1]) /\ IsPlainTok(toks[2])
     \/ IsPlainTok(toks[1]) /\ toks[2] = toks[1]
  /\ Len(result.val.filters) = 2

\* The words of a piece of SQL, cut at its spaces.
Words(s) == Split(s, " ")
\* The text of out past the first n characters.
Past(s, n) == SubSeq(s, n + 1, Len(s))
StartsWith(s, p) == Len(s) >= Len(p) /\ SubSeq(s, 1, Len(p)) = p
EndsWith(s, p) ==
  Len(s) >= Len(p) /\ SubSeq(s, Len(s) - Len(p) + 1, Len(s)) = p
DigitVal(c) == CHOOSE v \in 0..9 : Digits[v + 1] = c

RECURSIVE DecValue(_)
\* The number a string of decimal digits denotes.
DecValue(ds) ==
  IF ds = << >> THEN 0
  ELSE 10 * DecValue(SubSeq(ds, 1, Len(ds) - 1)) + DigitVal(ds[Len(ds)])

\* The word is `$k` in decimal, without leading zeros.
IsPlaceholder(word, k) ==
  /\ Len(word) >= 2
  /\ word[1] = "$"
  /\ \A j \in 2..Len(word) : \E v \in 0..9 : Digits[v + 1] = word[j]
  /\ (Len(word) > 2 => word[2] # "0")
  /\ DecValue(Tail(word)) = k

kWHERE == <<"W","H","E","R","E">>
kAND == <<"A","N","D">>
kGROUP == <<"G","R","O","U","P">>
kORDER == <<"O","R","D","E","R">>
kBY == <<"B","Y">>
kLIMIT == <<"L","I","M","I","T">>
kOFFSET == <<"O","F","F","S","E","T">>

\* The rendered symbol of each condition (spec, section 8).
SymbolOf(c) ==
  CASE c = "EQ" -> <<"=">> [] c = "NE" -> <<"!","=">> [] c = "GT" -> <<">">>
    [] c = "GE" -> <<">","=">> [] c = "LT" -> <<"<">> [] c = "LE" -> <<"<","=">>

\* What C3 says of one rendering: `after` is `before` followed by text in
\* which filter i (from 1) is the clause with placeholder $(shift + i), no
\* other placeholder occurs, and args pairs each filter's field and value.
NumberedFrom(before, after, args, fs, shift) ==
  LET n == Len(fs)
      w == Words(Past(after, Len(before)))
  IN /\ StartsWith(after, before)
     /\ Len(args) = n
     /\ \A i \in 1..n : args[i] = <<fs[i].field, fs[i].value>>
     /\ Cardinality({j \in 1..Len(w) : w[j] # << >> /\ w[j][1] = "$"}) = n
     /\ n > 0 =>
          /\ Len(w) >= 4 * n + 1
          /\ w[2] = kWHERE
          /\ \A i \in 1..n :
               /\ EndsWith(w[4 * i - 1], ToSnake(fs[i].field))
               /\ w[4 * i] = SymbolOf(fs[i].condition)
               /\ IsPlaceholder(w[4 * i + 1], shift + i)

\* C3: in the SQL of append_where and of build, the filter at 0-based
\* position i is rendered with placeholder $(shift_bind + i + 1), and the
\* bind arguments are one (field, value) per filter, in the filters' order.
C3_BindNumbering ==
  /\ pc = "builder" =>
       LET r == append_where(qb) IN
       NumberedFrom(qb.sql, r.self.sql, r.args, qb.url_query.filters,
                    qb.shift_bind)
  /\ pc = "built" =>
       NumberedFrom(qb.sql, out[1], out[2], qb.url_query.filters,
                    qb.shift_bind)

\* A built query of two filters with a shift of 9: placeholders $10, $11.
C3_Witness ==
  /\ pc = "built"
  /\ Len(qb.url_query.filters) >= 2
  /\ qb.shift_bind = 9
  /\ Len(out[2]) >= 2

\* The cut of a sort value at its first '-'.
SortField(s) == SubSeq(s, 1, Dash1(s) - 1)
SortDirection(s) == SubSeq(s, Dash1(s) + 1, Len(s))
IsDirection(s) == s \in {<<"a","s","c">>, <<"d","e","s","c">>}

\* A token that fails: a malformed filter[] or sort value, an unknown
\* condition or direction, or a field outside the allow-list.
TokenFails(t, allowed) ==
  \/ /\ IsFilterTok(t)
     /\ \/ ~ThreeParts(ValOf(t))
        \/ ~IsCondToken(CutCond(ValOf(t)))
        \/ CutField(ValOf(t)) \notin allowed
  \/ /\ IsSortTok(t)
     /\ \/ Positions(ValOf(t), "-") = {}
        \/ ~IsDirection(SortDirection(ValOf(t)))
        \/ SortField(ValOf(t)) \notin allowed
  \/ IsGroupTok(t) /\ ValOf(t) \notin allowed
  \/ IsPlainTok(t) /\ KeyOf(t) \notin allowed

Failing(ts, allowed) == {i \in 1..Len(ts) : TokenFails(ts[i], allowed)}
FirstFailing == toks[Least(Failing(toks, allowed_fields))]

\* The first failing token is a plain key outside the allow-list.
PlainDisallowed(t) == IsPlainTok(t) /\ KeyOf(t) \notin allowed_fields
\* The first failing token is a filter[] token of three parts whose field is
\* outside the allow-list.
FilterDisallowed(t) ==
  /\ IsFilterTok(t)
  /\ ThreeParts(ValOf(t))
  /\ CutField(ValOf(t)) \notin allowed_fields

\* C4 as stated: UrlQuery::new fails with InvalidField whenever the first
\* failing token is a plain key outside the allow-list or a three-part
\* filter[] token whose field is outside the allow-list, whatever the
\* condition part of that filter[] token is.
C4_FieldBeforeCondition ==
  (pc = "failed" /\ Failing(toks, allowed_fields) # {}) =>
    ((PlainDisallowed(FirstFailing) \/ FilterDisallowed(FirstFailing))
       => result.err = "InvalidField")

\* C4, amended: the same, for a filter[] token whose condition part is one
\* of the six condition tokens; a three-part filter[] token with any other
\* condition part fails with InvalidCondition, its field allowed or not.
C4_FieldAfterCondition ==
  (pc = "failed" /\ Failing(toks, allowed_fields) # {}) =>
    LET t == FirstFailing IN
    /\ PlainDisallowed(t) => result.err = "InvalidField"
    /\ (FilterDisallowed(t) /\ IsCondToken(CutCond(ValOf(t))))
         => result.err = "InvalidField"
    /\ (IsFilterTok(t) /\ ThreeParts(ValOf(t))
          /\ ~IsCondToken(CutCond(ValOf(t))))
         => result.err = "InvalidCondition"

\* A parse that fails at a well-formed filter[] token, after a token that
\* passed, on a field outside the allow-list.
C4_Witness ==
  /\ pc = "failed"
  /\ Len(toks) = 2
  /\ Failing(toks, allowed_fields) = {2}
  /\ FilterDisallowed(toks[2])
  /\ IsCondToken(CutCond(ValOf(toks[2])))
  /\ result.err = "InvalidField"

\* C5: UrlQuery::new returns an error exactly when some token fails; the
\* result then holds no model, the error is the one the leftmost failing
\* token raises, and the result is the one of the input cut after that
\* token: the tokens to its right have no influence.
C5_LeftmostFailure ==
  pc \in {"parsed", "failed"} =>
    /\ result.ok <=> Failing(toks, allowed_fields) = {}
    /\ ~result.ok =>
         LET k == Least(Failing(toks, allowed_fields)) IN
         /\ DOMAIN result = {"ok", "err"}
         /\ result.err = LoopBody(toks[k], allowed_fields, EmptyQuery).err
         /\ result = UrlQuery_new(Join(SubSeq(toks, 1, k), <<kAmp>>),
                                  allowed_fields)

\* Two failing tokens that raise different errors: the first one's is
\* returned.
C5_Witness ==
  /\ pc = "failed"
  /\ Len(toks) = 2
  /\ Failing(toks, allowed_fields) = {1, 2}
  /\ LoopBody(toks[1], allowed_fields, EmptyQuery).err
       # LoopBody(toks[2], allowed_fields, EmptyQuery).err
  /\ result.err = LoopBody(toks[1], allowed_fields, EmptyQuery).err

\* C6: Filter::new cuts at the first two '-' only: the field is the text
\* before the first, the condition token the text between the first and the
\* second, the value all that follows the second; fewer than two '-' fail
\* with InvalidFilter, two or more never do.
C6_CutAtFirstTwoDashes ==
  pc = "filter" =>
    IF ~ThreeParts(fin) THEN fres = Err("InvalidFilter")
    ELSE /\ ~fres.ok => fres.err # "InvalidFilter"
         /\ fres.ok <=> IsCondToken(CutCond(fin))
         /\ fres.ok =>
              /\ fres.val.field = CutField(fin)
              /\ fres.val.condition = CondOf(CutCond(fin))
              /\ fres.val.value = CutValue(fin)

\* A filter whose value holds a '-' of its own.
C6_Witness ==
  /\ pc = "filter"
  /\ fres.ok
  /\ fres.val.field # << >>
  /\ Positions(fres.val.value, "-") # {}

Greatest(S) == CHOOSE i \in S : \A j \in S : j <= i
\* The value of the last token that satisfies Is, when there is one.
LastValue(Is(_)) ==
  LET S == {i \in 1..Len(toks) : Is(toks[i])} IN
  IF S = {} THEN None ELSE Some(ValOf(toks[Greatest(S)]))

\* C7: on success, params is the set of the keys of the plain tokens; a
\* token with a reserved key adds no member to params and no implicit
\* equality filter, and its value is held by its dedicated field only.
C7_ReservedKeysConsumed ==
  pc = "parsed" =>
    LET m == result.val
        c == Contributing(toks)
        sort == LastValue(IsSortTok)
    IN /\ m.params = {KeyOf(toks[i]) : i \in {j \in 1..Len(toks) : IsPlainTok(toks[j])}}
       /\ m.params \cap ReservedKeys = {}
       /\ Len(m.filters) = Len(c)
       /\ \A i \in 1..Len(c) :
            ~IsFilterTok(c[i]) =>
              /\ m.filters[i].field = KeyOf(c[i])
              /\ m.filters[i].field \notin ReservedKeys
              /\ m.filters[i].condition = "EQ"
       /\ m.limit_offset[1] = LastValue(IsLimitTok)
       /\ m.limit_offset[2] = LastValue(IsOffsetTok)
       /\ m.group = LastValue(IsGroupTok)
       /\ m.sort = None <=> sort = None
       /\ m.sort # None => m.sort[1].field = SortField(sort[1])

\* A query of limit and offset only, parsed with "limit" in the allow-list:
\* no parameter and no filter.
C7_Witness ==
  /\ pc = "parsed"
  /\ Len(toks) = 2
  /\ IsLimitTok(toks[1])
  /\ IsOffsetTok(toks[2])
  /\ fLimit \in allowed_fields
  /\ result.val.params = {}
  /\ result.val.filters = << >>
  /\ result.val.limit_offset[1] # None
  /\ result.val.limit_offset[2] # None

RECURSIVE WithFragments(_, _)
\* The SQL b followed by each fragment after a space, in order.
WithFragments(b, frags) ==
  IF frags = << >> THEN b
  ELSE WithFragments(b \o <<" ">> \o Head(frags), Tail(frags))

\* The places of the word kw among the words w.
At(w, kw) == {j \in 1..Len(w) : w[j] = kw}
ClauseOrder == <<kWHERE, kGROUP, kORDER, kLIMIT, kOFFSET>>

\* C8: build returns the base SQL with the appended fragments in the order
\* supplied, followed in this order by a WHERE clause of all filters joined
\* by AND exactly when there are filters, a GROUP BY clause exactly when
\* there is a group, an ORDER BY clause exactly when there is a sort, then
\* LIMIT/OFFSET; an empty model gives the base SQL unchanged and no bind
\* argument.
C8_ClauseOrder ==
  pc = "built" =>
    LET m == qb.url_query
        n == Len(m.filters)
        pre == WithFragments(base, appended)
        w == Words(Past(out[1], Len(pre)))
    IN /\ StartsWith(out[1], pre)
       /\ At(w, kWHERE) # {} <=> n > 0
       /\ At(w, kGROUP) # {} <=> m.group # None
       /\ At(w, kORDER) # {} <=> m.sort # None
       /\ \A i \in 1..Len(ClauseOrder) :
            Cardinality(At(w, ClauseOrder[i])) <= 1
       /\ \A i, j \in 1..Len(ClauseOrder) :
            (i < j /\ At(w, ClauseOrder[i]) # {} /\ At(w, ClauseOrder[j]) # {})
              => Least(At(w, ClauseOrder[i])) < Least(At(w, ClauseOrder[j]))
       /\ n > 0 =>
            /\ w[2] = kWHERE
            /\ At(w, kAND) = {4 * i + 2 : i \in 1..(n - 1)}
            /\ Len(w) >= 4 * n + 1
            /\ Len(w) > 4 * n + 1 => w[4 * n + 2] \in {kGROUP, kORDER, kLIMIT}
       /\ n = 0 => out[2] = << >>
       /\ (n = 0 /\ m.group = None /\ m.sort = None
             /\ m.limit_offset[1] = None)
            => out[1] = pre

\* A built query with two appended fragments and every clause.
C8_Witness ==
  /\ pc = "built"
  /\ Len(appended) = 2
  /\ appended[1] # appended[2]
  /\ Len(qb.url_query.filters) >= 2
  /\ qb.url_query.group # None
  /\ qb.url_query.sort # None
  /\ qb.url_query.limit_offset[1] # None
  /\ qb.url_query.limit_offset[2] # None

\* C9: build appends ' LIMIT <limit>' exactly when the limit is present and
\* ' OFFSET <offset>' exactly when limit and offset both are, each string as
\* it stands.
C9_LimitOffset ==
  pc = "built" =>
    LET limit == qb.url_query.limit_offset[1]
        offset == qb.url_query.limit_offset[2]
        w == Words(Past(out[1], Len(qb.sql)))
    IN /\ At(w, kLIMIT) # {} <=> limit # None
       /\ At(w, kOFFSET) # {} <=> (limit # None /\ offset # None)
       /\ (limit # None /\ offset = None) =>
            EndsWith(out[1], <<" ">> \o kLIMIT \o <<" ">> \o limit[1])
       /\ (limit # None /\ offset # None) =>
            EndsWith(out[1], <<" ">> \o kLIMIT \o <<" ">> \o limit[1]
                               \o <<" ">> \o kOFFSET \o <<" ">> \o offset[1])

\* A built query whose model has an offset and no limit: neither clause.
C9_Witness ==
  /\ pc = "built"
  /\ qb.url_query.limit_offset[1] = None
  /\ qb.url_query.limit_offset[2] # None
  /\ qb.url_query.filters # << >>
  /\ At(Words(out[1]), kOFFSET) = {}

\* The field as C10 has it rendered: 'table.' in front exactly when the
\* name the model holds is a key of the column map.
Qualified(field) ==
  (IF field \in DOMAIN qb.map_columns
     THEN qb.map_columns[field] \o <<".">> ELSE << >>) \o ToSnake(field)

\* C10: a filter field, the group field and the sort field are each
\* rendered with 'table.' in front exactly when the name as the model holds
\* it is a key of the column map, with the table it maps to.
C10_ColumnQualification ==
  pc = "built" =>
    LET m == qb.url_query
        n == Len(m.filters)
        w == Words(Past(out[1], Len(qb.sql)))
    IN /\ \A i \in 1..n : w[4 * i - 1] = Qualified(m.filters[i].field)
       /\ m.group # None =>
            /\ w[Least(At(w, kGROUP)) + 1] = kBY
            /\ w[Least(At(w, kGROUP)) + 2] = Qualified(m.group[1])
       /\ m.sort # None =>
            /\ w[Least(At(w, kORDER)) + 1] = kBY
            /\ w[Least(At(w, kORDER)) + 2] = Qualified(m.sort[1].field)

\* A built query under a map with one of its two filter fields as a key,
\* which is the group and the sort field too.
C10_Witness ==
  /\ pc = "built"
  /\ DOMAIN qb.map_columns = {fUI}
  /\ \E i, j \in 1..Len(qb.url_query.filters) :
       /\ qb.url_query.filters[i].field = fUI
       /\ qb.url_query.filters[j].field = fA
  /\ qb.url_query.group = Some(fUI)
  /\ qb.url_query.sort # None

\* ------------------------------------------------------------------- C11
\* The names of a check_required call that the model's params do not hold,
\* by their position in the list.
Missing ==
  {i \in 1..Len(ret.required) : ret.required[i] \notin result.val.params}

\* C11: check_required(required) returns Ok exactly when every name of
\* required is in params; otherwise it returns "<name> is required" for the
\* first missing name in the order of the list.  A list that names a
\* reserved key fails, whether or not the query string carried that key.
C11_CheckRequired ==
  (pc = "parsed" /\ ret # NoResult /\ ret.op = "check_required") =>
    /\ ret.val.ok <=> Missing = {}
    /\ Missing # {} =>
         ret.val = [ok |-> FALSE,
                    err |-> ret.required[Least(Missing)]
                              \o <<" ","i","s"," ","r","e","q","u","i","r",
                                   "e","d">>]
    /\ (\E i \in 1..Len(ret.required) : ret.required[i] \in ReservedKeys)
         => ~ret.val.ok

\* The query carries userId-like "uI" and a limit, both allowed, and
\* check_required(["uI", "limit", "offset"]) fails with "limit is required",
\* the first of its two missing names.
C11_Witness ==
  /\ pc = "parsed"
  /\ ret # NoResult
  /\ ret.op = "check_required"
  /\ \E i \in 1..Len(toks) : IsLimitTok(toks[i])
  /\ Cardinality(Missing) = 2
  /\ ret.required[Least(Missing)] = <<"l","i","m","i","t">>
  /\ ~ret.val.ok
  /\ ret.val.err = <<"l","i","m","i","t"," ","i","s"," ","r","e","q","u","i",
                     "r","e","d">>

\* ------------------------------------------------------------------- C12
\* The tokens of the input that have an '=', in input order.
WithEq(ts) == SelectSeq(ts, HasEq)

\* Every token of the input either has no '=' or is a plain key=value token
\* whose key, the text before its first '=', is in the allow-list.
OnlyBareOrAllowedPlain ==
  \A i \in 1..Len(toks) :
    \/ ~HasEq(toks[i])
    \/ IsPlainTok(toks[i]) /\ KeyOf(toks[i]) \in allowed_fields

\* C12: a token is cut at its first '=' only, so a value keeps any later
\* '='; a token with no '=' is skipped, without error and without effect:
\* the outcome is that of the query without such tokens.  A query of
\* tokens without '=' only, the empty string included, parses under every
\* allow-list to the model with nothing in it.
C12_FirstEqAndSkip ==
  (pc \in {"parsed", "failed"}) =>
    /\ result = UrlQuery_new(Join(WithEq(toks), <<"&">>), allowed_fields)
    /\ OnlyBareOrAllowedPlain =>
         LET c == WithEq(toks) IN
         /\ pc = "parsed"
         /\ result.val =
              [params |-> {KeyOf(c[i]) : i \in 1..Len(c)},
               filters |-> [i \in 1..Len(c) |->
                             [field |-> KeyOf(c[i]), condition |-> "EQ",
                              value |-> ValOf(c[i])]],
               group |-> << >>,
               sort |-> << >>,
               limit_offset |-> << << >>, << >> >>]
    /\ (\A i \in 1..Len(toks) : ~HasEq(toks[i])) =>
         /\ pc = "parsed"
         /\ result.val.params = {}
         /\ result.val.filters = << >>
         /\ result.val.group = << >>
         /\ result.val.sort = << >>
         /\ result.val.limit_offset = << << >>, << >> >>

\* The query "a&a=1=2" with "a" allowed: the token without '=' leaves no
\* trace and the value of the other is "1=2".
C12_Witness ==
  /\ pc = "parsed"
  /\ toks = << <<"a">>, <<"a","=","1","=","2">> >>
  /\ str = <<"a","&","a","=","1","=","2">>
  /\ result.val.params = { <<"a">> }
  /\ result.val.filters =
       << [field |-> <<"a">>, condition |-> "EQ", value |-> <<"1","=","2">>] >>

\* ------------------------------------------------------------------- C13
\* The field names a parsed model holds.
HeldFields ==
  result.val.params
    \cup {result.val.filters[i].field : i \in 1..Len(result.val.filters)}
    \cup {result.val.group[i] : i \in 1..Len(result.val.group)}
    \cup {result.val.sort[i].field : i \in 1..Len(result.val.sort)}

\* The model is as UrlQuery::new returned it for the query string and the
\* allow-list.
AsParsed ==
  /\ result.ok
  /\ LET parsed == UrlQuery_new(str, allowed_fields).val IN
     /\ result.val.filters = parsed.filters
     /\ result.val.group = parsed.group
     /\ result.val.sort = parsed.sort
     /\ result.val.limit_offset = parsed.limit_offset

FitsWord(shift, i) == shift < 0 => shift + i + 1 < 0

\* C14: build has no failure outcome: whatever the model and the
\* shift_bind value, it returns, and the bind index shift + i + 1 of every
\* filter is computed without overflow, wrap-around or abort.
C14_BuildTotal ==
  /\ pc # "panicked"
  /\ pc = "built" =>
       \A i \in 1..Len(qb.url_query.filters) :
         FitsWord(qb.shift_bind, i - 1)

\* ------------------------------------------------------------------- C15
\* The fragments handed to append, as words.
FragmentWords == { <<"J">>, <<"K">> }

\* The place of a word in the order joins, WHERE, GROUP BY, ORDER BY,
\* LIMIT, OFFSET; 0 for a word that opens no part.
PartOf(word) ==
  CASE word \in FragmentWords -> 1
    [] word = kWHERE -> 2
    [] word = kGROUP -> 3
    [] word = kORDER -> 4
    [] word = kLIMIT -> 5
    [] word = kOFFSET -> 6
    [] OTHER -> 0

\* C15: whatever public calls were made on the builder before build (append,
\* map_columns, shift_bind, append_where, append_group, append_sort, in any
\* order), the SQL build returns has the WHERE, GROUP BY and ORDER BY
\* clauses at most once each, its parts in the order joins, WHERE, GROUP BY,
\* ORDER BY, LIMIT/OFFSET, and one placeholder per filter of the model.
C15_SingleRender ==
  pc = "built" =>
    LET w == Words(Past(out[1], Len(base)))
        parts == {j \in 1..Len(w) : PartOf(w[j]) > 0}
    IN /\ StartsWith(out[1], base)
       /\ Cardinality(At(w, kWHERE)) <= 1
       /\ Cardinality(At(w, kGROUP)) <= 1
       /\ Cardinality(At(w, kORDER)) <= 1
       /\ \A i, j \in parts : i < j => PartOf(w[i]) <= PartOf(w[j])
       /\ Cardinality({j \in 1..Len(w) : w[j] # << >> /\ w[j][1] = "$"})
            = Len(qb.url_query.filters)
====
